---- MODULE Spec2Model ----
(***************************************************************************)
(* A model of the AI data agent: the query engine (backend/ai_agent.py)    *)
(* and the table normalizer (project/backend/data_processor.py).           *)
(*                                                                         *)
(* Text is a sequence of one-character strings, so that lower-casing and   *)
(* substring search are computed and not assumed.  A floating-point cell   *)
(* is an integer, NaN is the integer NaN; a mean is the pair <<sum,count>>.*)
(***************************************************************************)
EXTENDS Integers, Sequences, FiniteSets, TLC

VARIABLES
  pc,        \* position of the call in progress
  df,        \* the DataFrame given to AIAgent.process_query
  query,     \* the query text
  summary,   \* data_summary of process_query
  locals,    \* local variables of the running handler
  result,    \* what process_query returned (or the exception it raised)
  orders,    \* the orders the sorts of this build give to equal keys
  history,   \* the first call of a session that is observed, and its result
  names,         \* df.columns in the column-name step of _clean_dataframe
  names_before,  \* df.columns before the last run of that step
  file_contents, \* the bytes given to DataProcessor.process_file
  filename,      \* the file name given to it
  read_df,       \* the table as _read_csv / _read_excel returned it
  sheet_names,   \* the sheet names _read_excel returned ([] for a CSV)
  clean_df,      \* the table as _clean_dataframe returned it
  outcome,       \* what process_file returned (or the exception it raised)
  uploaded_files, \* the rows of the table uploaded_files
  data_cache,     \* the rows of the table data_cache
  request,        \* the HTTP request an endpoint is handling
  response,       \* the HTTP response the endpoint gave
  engine_calls    \* calls of ai_agent.process_query made for the request

qvars == <<df, query, summary, locals, result, orders, history>>
nvars == <<names, names_before>>
ivars == <<file_contents, filename, read_df, sheet_names, clean_df, outcome>>
avars == <<uploaded_files, data_cache, request, response, engine_calls>>
vars == <<pc, qvars, nvars, ivars, avars>>

(***************************** bounds ***************************************)
MaxWords == 2      \* fragments concatenated into a query text
MaxRows == 31      \* rows of a generated table
MaxSeed == 2       \* seeds of the cell generator
Near == 6          \* half-width (in 1e-4) of the coefficient grid at a threshold
MaxHeaderLen == 3  \* characters of a raw column header
MaxCsvRows == 2    \* data lines of a generated CSV file
MaxSheetRows == 2  \* rows of a generated sheet
MaxSheets == 2     \* sheets of a generated workbook
MaxUploads == 2    \* files a behaviour uploads

(***************************** text *****************************************)
LowerMap ==
  [A |-> "a", C |-> "c", E |-> "e", M |-> "m", O |-> "o", P |-> "p",
   R |-> "r", S |-> "s", T |-> "t", W |-> "w"]

\* str.lower() on one character
LowerChar(c) == IF c \in DOMAIN LowerMap THEN LowerMap[c] ELSE c

\* str.lower()
Lower(s) == [i \in 1..Len(s) |-> LowerChar(s[i])]

\* `word in text`: word occurs as a contiguous substring
Contains(text, word) ==
  \E k \in 0..(Len(text) - Len(word)) :
     \A i \in 1..Len(word) : text[k + i] = word[i]

\* any(word in text for word in words)
AnyIn(text, words) == \E w \in 1..Len(words) : Contains(text, words[w])

RECURSIVE Concat(_)
Concat(ss) == IF ss = <<>> THEN <<>> ELSE Head(ss) \o Concat(Tail(ss))

(***************************** keyword sets *********************************)
trend_words ==
  << <<"t","r","e","n","d">>,
     <<"o","v","e","r"," ","t","i","m","e">>,
     <<"t","i","m","e","l","i","n","e">>,
     <<"c","h","a","n","g","e">> >>

statistics_words ==
  << <<"s","t","a","t","i","s","t","i","c","s">>,
     <<"s","t","a","t","s">>,
     <<"s","u","m","m","a","r","y">>,
     <<"d","e","s","c","r","i","b","e">> >>

comparison_words ==
  << <<"c","o","m","p","a","r","e">>,
     <<"c","o","m","p","a","r","i","s","o","n">>,
     <<"v","s">>,
     <<"v","e","r","s","u","s">>,
     <<"d","i","f","f","e","r","e","n","c","e">> >>

extremes_words ==
  << <<"t","o","p">>,
     <<"b","o","t","t","o","m">>,
     <<"h","i","g","h","e","s","t">>,
     <<"l","o","w","e","s","t">>,
     <<"b","e","s","t">>,
     <<"w","o","r","s","t">> >>

aggregates_words ==
  << <<"a","v","e","r","a","g","e">>,
     <<"m","e","a","n">>,
     <<"m","e","d","i","a","n">>,
     <<"t","o","t","a","l">>,
     <<"s","u","m">>,
     <<"c","o","u","n","t">> >>

correlation_words ==
  << <<"c","o","r","r","e","l","a","t","i","o","n">>,
     <<"r","e","l","a","t","i","o","n","s","h","i","p">>,
     <<"r","e","l","a","t","e">>,
     <<"c","o","n","n","e","c","t","e","d">> >>

bottom_words ==
  << <<"b","o","t","t","o","m">>,
     <<"l","o","w","e","s","t">>,
     <<"w","o","r","s","t">>,
     <<"m","i","n","i","m","u","m">> >>

(***************************** tables ***************************************)
NaN == -99999
NoneStr == "<NA>"

\* pd.notna
notna(v) == v # NaN

Names == <<"col_a", "col_b", "col_c">>

\* dtypes of the columns of the tables drawn, left to right
Shapes ==
  { <<>>, <<"object">>, <<"number">>,
    <<"object", "number">>, <<"number", "object">>, <<"object", "object">>,
    <<"number", "number">>, <<"object", "number", "number">>,
    <<"number", "number", "number">> }

\* a generated numeric cell: values -2..3 with ties, and NaN
NumCell(seed, c, i) ==
  LET raw == ((seed + 1) * (i * i + 3 * c + 1) + c * i) % 7
  IN  IF raw = 6 THEN NaN ELSE raw - 2

\* a generated text cell: three labels and the missing marker
ObjCell(seed, c, i) ==
  LET raw == ((seed + 2) * i + c) % 4
  IN  IF raw = 3 THEN NoneStr ELSE <<"a", "b", "c">>[raw + 1]

\* the pairs i < j of positions in a list of n numeric columns
Pairs(n) == { p \in (1..n) \X (1..n) : p[1] < p[2] }

NumericCount(shape) == Cardinality({c \in 1..Len(shape) : shape[c] = "number"})

MakeTable(shape, n, seed, pearson) ==
  [ columns |->
      [c \in 1..Len(shape) |->
         [ name   |-> Names[c],
           dtype  |-> shape[c],
           values |-> [i \in 1..n |->
                         IF shape[c] = "number" THEN NumCell(seed, c, i)
                                                ELSE ObjCell(seed, c, i)] ]],
    nrows   |-> n,
    pearson |-> pearson ]

\* len(df)
len(d) == d.nrows


ColNames(d) == [c \in 1..Len(d.columns) |-> d.columns[c].name]

\* df[name]: the values of the column called name
Column(d, name) ==
  d.columns[CHOOSE c \in 1..Len(d.columns) : d.columns[c].name = name].values

\* df.select_dtypes(include=...).columns.tolist()
select_dtypes(d, dtype) ==
  LET picked == SelectSeq(d.columns, LAMBDA col : col.dtype = dtype)
  IN  [c \in 1..Len(picked) |-> picked[c].name]

\* AIAgent._get_data_summary
_get_data_summary(d) ==
  [ columns             |-> ColNames(d),
    numeric_columns     |-> select_dtypes(d, "number"),
    categorical_columns |-> select_dtypes(d, "object"),
    row_count           |-> len(d),
    column_count        |-> Len(d.columns) ]

(***************************** series arithmetic ****************************)
RECURSIVE SumSeq(_)
SumSeq(s) == IF s = <<>> THEN 0 ELSE Head(s) + SumSeq(Tail(s))

dropna(vals) == SelectSeq(vals, notna)

\* Series.sum(), skipping NaN
sum(vals) == SumSeq(dropna(vals))

\* Series.count()
count(vals) == Len(dropna(vals))

\* Series.mean(), skipping NaN: the pair <<sum, count>>; <<0, 0>> is NaN
mean(vals) == <<sum(vals), count(vals)>>

\* Series.min() and Series.max(), skipping NaN
min(vals) ==
  LET v == dropna(vals)
  IN  IF v = <<>> THEN NaN
      ELSE CHOOSE x \in {v[i] : i \in 1..Len(v)} : \A i \in 1..Len(v) : x <= v[i]

max(vals) ==
  LET v == dropna(vals)
  IN  IF v = <<>> THEN NaN
      ELSE CHOOSE x \in {v[i] : i \in 1..Len(v)} : \A i \in 1..Len(v) : x >= v[i]

\* Positions 1..Len(key) ordered by key ascending.  Equal keys keep their
\* original order when ties = "first" and the reverse of it when "last".
RECURSIVE InsertUpTo(_, _, _)
InsertUpTo(k, key, ties) ==
  IF k = 0 THEN <<>>
  ELSE LET sorted == InsertUpTo(k - 1, key, ties)
           goesBefore(x) == IF ties = "first" THEN key[x] <= key[k]
                                              ELSE key[x] < key[k]
       IN  SelectSeq(sorted, goesBefore) \o <<k>>
             \o SelectSeq(sorted, LAMBDA x : ~goesBefore(x))

SortedPositions(key, ties) == InsertUpTo(Len(key), key, ties)

\* the outcomes of a sort that is not stable (numpy quicksort)
TieOrders == {"first", "last"}

\* a key that puts NaN after every value
NaNLast(v) == IF v = NaN THEN 1000000 ELSE v

\* Series.median(), skipping NaN: <<sum of the two middle values, 2>>
median(vals) ==
  LET v == dropna(vals)
      n == Len(v)
      pos == SortedPositions(v, "first")
  IN  IF n = 0 THEN <<0, 0>>
      ELSE <<v[pos[(n + 1) \div 2]] + v[pos[(n + 2) \div 2]], 2>>

\* Series.std() without the square root: the sample variance as a fraction
variance(vals) ==
  LET v == dropna(vals)
      n == Len(v)
      sq == [i \in 1..n |-> v[i] * v[i]]
  IN  IF n < 2 THEN <<0, 0>>
      ELSE <<n * SumSeq(sq) - SumSeq(v) * SumSeq(v), n * (n - 1)>>

\* list[:k]
Take(s, k) == SubSeq(s, 1, IF k < Len(s) THEN k ELSE Len(s))

(***************************** results **************************************)
\* the empty visualization {}
EmptyVisualization == [type |-> "none", data |-> <<>>]

Returned(answer, visualization, metadata) ==
  [ status |-> "returned", answer |-> answer,
    visualization |-> visualization, metadata |-> metadata ]

\* an exception leaving process_query
Raised(error) == [status |-> "raised", error |-> error]

NoLocals == [handler |-> "none"]

\* a degenerate-input return: <<result, locals>>
Fallback(text, query_type) ==
  << Returned([text |-> text], EmptyVisualization, [query_type |-> query_type]),
     NoLocals >>

(***************************** trend *****************************************)
bins == 10

\* `not numeric_cols`
NoNumeric(s) == s.numeric_columns = <<>>

\* bin_size = len(df_sorted) // bins
bin_size(n) == n \div bins

\* start_idx and end_idx of bin i (0-based, end exclusive)
start_idx(i, n) == i * bin_size(n)

\* end_idx without the last bin taking the remainder
end_idx_NoRemainder(i, n) == start_idx(i, n) + bin_size(n)

end_idx(i, n) ==
  IF i < bins - 1 THEN start_idx(i, n) + bin_size(n) ELSE n

\* df.sort_values(by=col): the rows (1-based) in ascending order, NaN last
sort_values(d, col, ties) ==
  LET vals == Column(d, col)
  IN  SortedPositions([i \in 1..Len(vals) |-> NaNLast(vals[i])], ties)

\* the locals of _analyze_trends for more than 20 rows
TrendLocals(d, col, ties) ==
  LET df_sorted == sort_values(d, col, ties)
  IN  [ handler   |-> "_analyze_trends",
        df_sorted |-> df_sorted,
        ranges    |-> [b \in 1..bins |->
                         [ start_idx |-> start_idx(b - 1, Len(df_sorted)),
                           end_idx   |-> end_idx(b - 1, Len(df_sorted)) ]] ]

\* chart_data of _analyze_trends
TrendChart(d, col, loc) ==
  LET vals == Column(d, col)
  IN  IF len(d) <= 20
      THEN LET kept == SelectSeq([i \in 1..len(d) |-> i],
                                 LAMBDA i : notna(vals[i]))
           IN  [k \in 1..Len(kept) |->
                  [label |-> <<"Point", kept[k]>>, value |-> <<vals[kept[k]], 1>>]]
      ELSE [b \in 1..bins |->
              LET r == loc.ranges[b]
                  slice == [k \in 1..(r.end_idx - r.start_idx) |->
                              vals[loc.df_sorted[r.start_idx + k]]]
              IN  [label |-> <<"Segment", b>>, value |-> mean(slice)]]

\* AIAgent._analyze_trends: <<result, locals>>
_analyze_trends(d, s, ties) ==
  IF NoNumeric(s)
  THEN Fallback("I couldn't find any numeric columns to analyze trends. Your data appears to be primarily categorical.",
                "trend_analysis")
  ELSE IF Len(s.numeric_columns) < 1 THEN <<Raised("IndexError"), NoLocals>>
  ELSE
    LET trend_col == s.numeric_columns[1]
        vals == Column(d, trend_col)
        loc == IF len(d) <= 20 THEN NoLocals ELSE TrendLocals(d, trend_col, ties)
    IN  << Returned([ text |-> "Based on the data analysis",
                      mean_val |-> mean(vals), std_val |-> variance(vals),
                      min_val |-> min(vals), max_val |-> max(vals) ],
                    [type |-> "line", data |-> TrendChart(d, trend_col, loc)],
                    [query_type |-> "trend_analysis", column |-> trend_col]),
           loc >>

(***************************** statistics ************************************)
\* AIAgent._generate_statistics
_generate_statistics(d, s) ==
  LET cols == Take(s.numeric_columns, 5)
      stats_list ==
        [c \in 1..Len(cols) |->
           LET vals == Column(d, cols[c])
           IN  [ Column |-> cols[c], Mean |-> mean(vals), Median |-> median(vals),
                 StdDev |-> variance(vals), Min |-> min(vals), Max |-> max(vals) ]]
  IN  << Returned([ text |-> "Here's a statistical summary of your data",
                    rows |-> len(d), columns |-> Len(d.columns),
                    numeric |-> Len(s.numeric_columns),
                    categorical |-> Len(s.categorical_columns) ],
                  [type |-> "table", data |-> stats_list],
                  [query_type |-> "statistics"]),
         NoLocals >>

(***************************** comparison ************************************)
\* the guard of _compare_data with `and` in place of `or`
NoGroupAndValue(s) == s.categorical_columns = <<>> /\ s.numeric_columns = <<>>

\* `not categorical_cols or not numeric_cols`
NoGroupOrValue(s) == s.categorical_columns = <<>> \/ s.numeric_columns = <<>>

\* the labels of text cells in their sort order
LabelOrder == <<"a", "b", "c">>

IsNaNMean(m) == m[2] = 0

\* m1 > m2 for two means that are not NaN
GreaterMean(m1, m2) == m1[1] * m2[2] > m2[1] * m1[2]

\* df.groupby(group_col)[value_col].mean(): one <<key, mean>> per key present,
\* keys ascending, rows with a missing key left out
groupby_mean(d, group_col, value_col) ==
  LET keys == Column(d, group_col)
      vals == Column(d, value_col)
      present == SelectSeq(LabelOrder,
                           LAMBDA k : \E i \in 1..Len(keys) : keys[i] = k)
      rowsOf(k) == SelectSeq([i \in 1..Len(keys) |-> i], LAMBDA i : keys[i] = k)
  IN  [g \in 1..Len(present) |->
         [ key  |-> present[g],
           mean |-> mean([j \in 1..Len(rowsOf(present[g])) |->
                            vals[rowsOf(present[g])[j]]]) ]]

\* Series.sort_values(ascending=False): means descending, NaN last
sort_means_descending(groups, ties) ==
  LET n == Len(groups)
      m(a) == groups[a].mean
      Before(a, b) ==
        \/ ~IsNaNMean(m(a)) /\ IsNaNMean(m(b))
        \/ ~IsNaNMean(m(a)) /\ ~IsNaNMean(m(b)) /\ GreaterMean(m(a), m(b))
        \/ IsNaNMean(m(a)) /\ IsNaNMean(m(b)) /\ a < b
        \/ /\ ~IsNaNMean(m(a)) /\ ~IsNaNMean(m(b))
           /\ ~GreaterMean(m(a), m(b)) /\ ~GreaterMean(m(b), m(a))
           /\ (IF ties = "first" THEN a < b ELSE a > b)
      rank(a) == Cardinality({b \in 1..n : Before(b, a)}) + 1
  IN  [p \in 1..n |-> groups[CHOOSE a \in 1..n : rank(a) = p]]

\* AIAgent._compare_data
_compare_data(d, s, ties) ==
  IF NoGroupOrValue(s)
  THEN Fallback("I need both categorical and numeric columns to make comparisons. Please check your data structure.",
                "comparison")
  ELSE IF Len(s.categorical_columns) < 1 \/ Len(s.numeric_columns) < 1
  THEN <<Raised("IndexError"), NoLocals>>
  ELSE
    LET group_col == s.categorical_columns[1]
        value_col == s.numeric_columns[1]
        grouped == Take(sort_means_descending(
                          groupby_mean(d, group_col, value_col), ties), 10)
        valid == SelectSeq(grouped, LAMBDA g : ~IsNaNMean(g.mean))
    IN  << Returned([ text |-> "Comparison analysis",
                      highest |-> IF valid = <<>> THEN <<0, 0>>
                                  ELSE valid[1].mean,
                      lowest  |-> IF valid = <<>> THEN <<0, 0>>
                                  ELSE valid[Len(valid)].mean ],
                    [ type |-> "bar",
                      data |-> [g \in 1..Len(grouped) |->
                                  [ label |-> <<"str", grouped[g].key>>,
                                    value |-> grouped[g].mean ]] ],
                    [ query_type |-> "comparison", group_by |-> group_col,
                      metric |-> value_col ]),
           [handler |-> "_compare_data", grouped |-> grouped] >>

(***************************** extremes **************************************)
\* nlargest that keeps the last of equal values
nlargest_KeepLast(n, d, col) ==
  LET vals == Column(d, col)
  IN  Take(SortedPositions([i \in 1..Len(vals) |->
                              IF vals[i] = NaN THEN 1000000 ELSE 0 - vals[i]],
                           "last"), n)

\* df.nlargest(n, col) / df.nsmallest(n, col), keep='first': the rows (1-based)
\* with the n largest (smallest) values, equal values in original row order,
\* rows whose value is NaN after all others
nlargest(n, d, col) ==
  LET vals == Column(d, col)
  IN  Take(SortedPositions([i \in 1..Len(vals) |->
                              IF vals[i] = NaN THEN 1000000 ELSE 0 - vals[i]],
                           "first"), n)

nsmallest(n, d, col) ==
  LET vals == Column(d, col)
  IN  Take(SortedPositions([i \in 1..Len(vals) |-> NaNLast(vals[i])], "first"), n)

\* is_bottom of _find_extremes
is_bottom(q) == AnyIn(Lower(q), bottom_words)

\* AIAgent._find_extremes
_find_extremes(d, q, s) ==
  IF NoNumeric(s)
  THEN Fallback("I couldn't find numeric columns to identify top or bottom values.",
                "extremes")
  ELSE IF Len(s.numeric_columns) < 1 THEN <<Raised("IndexError"), NoLocals>>
  ELSE
    LET target_col == s.numeric_columns[1]
        vals == Column(d, target_col)
        top_data == IF is_bottom(q) THEN nsmallest(10, d, target_col)
                                    ELSE nlargest(10, d, target_col)
        direction == IF is_bottom(q) THEN "lowest" ELSE "highest"
        cols == ColNames(d)
        label_col == IF Len(cols) > 1
                     THEN (IF cols[1] # target_col THEN cols[1] ELSE cols[2])
                     ELSE "None"
        chart_data ==
          [k \in 1..Len(top_data) |->
             [ label |-> IF label_col # "None"
                         THEN <<"str", Column(d, label_col)[top_data[k]]>>
                         ELSE <<"Row", k>>,
               value |-> <<vals[top_data[k]], 1>> ]]
        picked == [k \in 1..Len(top_data) |-> vals[top_data[k]]]
    IN  << Returned([ text |-> "Here are the values", direction |-> direction,
                      found |-> Len(chart_data),
                      from |-> min(picked), to |-> max(picked) ],
                    [type |-> "bar", data |-> chart_data],
                    [ query_type |-> "extremes", column |-> target_col,
                      direction |-> direction ]),
           [handler |-> "_find_extremes", top_data |-> top_data] >>

(***************************** aggregates ************************************)
\* AIAgent._calculate_aggregates
_calculate_aggregates(d, s) ==
  IF NoNumeric(s)
  THEN Fallback("No numeric columns found for aggregate calculations.",
                "aggregates")
  ELSE
    LET cols == s.numeric_columns
        results ==
          [c \in 1..Len(cols) |->
             LET vals == Column(d, cols[c])
             IN  [ Column |-> cols[c], Sum |-> sum(vals), Average |-> mean(vals),
                   Median |-> median(vals), Count |-> count(vals) ]]
    IN  << Returned([text |-> "Aggregate calculations for your numeric columns"],
                    [type |-> "table", data |-> results],
                    [query_type |-> "aggregates"]),
           NoLocals >>

(***************************** correlation ***********************************)
\* `len(numeric_cols) < 2`
TooFewNumeric(s) == Len(s.numeric_columns) < 2

\* abs() of a float; abs(nan) is nan
abs(v) == IF v = NaN THEN NaN ELSE IF v < 0 THEN 0 - v ELSE v

\* f"{corr_val:.3f}": a coefficient in units of 1e-4 rounded to units of 1e-3
\* (round-half-even), "nan" for NaN
Format3(v) ==
  IF v = NaN THEN NaN
  ELSE LET a == abs(v)
           q == a \div 10
           r == a % 10
           up == r > 5 \/ (r = 5 /\ q % 2 = 1)
           rounded == IF up THEN q + 1 ELSE q
       IN  IF v < 0 THEN 0 - rounded ELSE rounded

\* _interpret_correlation without abs()
_interpret_correlation_NoAbs(corr) ==
  IF corr # NaN /\ corr >= 7000 THEN "Strong"
  ELSE IF corr # NaN /\ corr >= 4000 THEN "Moderate"
  ELSE IF corr # NaN /\ corr >= 2000 THEN "Weak"
  ELSE "Very Weak"

\* AIAgent._interpret_correlation, corr in units of 1e-4; every comparison
\* with NaN is false
_interpret_correlation(corr) ==
  LET abs_corr == abs(corr)
  IN  IF abs_corr # NaN /\ abs_corr >= 7000 THEN "Strong"
      ELSE IF abs_corr # NaN /\ abs_corr >= 4000 THEN "Moderate"
      ELSE IF abs_corr # NaN /\ abs_corr >= 2000 THEN "Weak"
      ELSE "Very Weak"

\* the pairs (i, j), i < j, in the order of the two nested loops
PairSeq(n) ==
  LET all == Pairs(n)
      rank(p) == Cardinality({q \in all : q[1] < p[1] \/
                                          (q[1] = p[1] /\ q[2] < p[2])}) + 1
  IN  [k \in 1..Cardinality(all) |-> CHOOSE p \in all : rank(p) = k]

\* the list `correlations` before it is sorted; corr_val is kept beside each row
correlations(d, s) ==
  LET cols == s.numeric_columns
      ps == PairSeq(Len(cols))
  IN  [k \in 1..Len(ps) |->
         LET corr_val == d.pearson[ps[k]]
         IN  [ corr_val |-> corr_val,
               row |-> [ Column1 |-> cols[ps[k][1]], Column2 |-> cols[ps[k][2]],
                         Correlation |-> Format3(corr_val),
                         Strength |-> _interpret_correlation(corr_val) ] ]]

PositionOrders(n) ==
  { f \in [1..n -> 1..n] : \A a, b \in 1..n : a # b => f[a] # f[b] }

\* correlations.sort(key=lambda x: abs(float(x["Correlation"])), reverse=True):
\* stable and descending; with a NaN key the comparisons are inconsistent and
\* the order depends on the list-sort implementation
SortOrders(rows) ==
  LET key == [k \in 1..Len(rows) |-> abs(rows[k].row.Correlation)]
  IN  IF \E k \in 1..Len(rows) : key[k] = NaN
      THEN PositionOrders(Len(rows))
      ELSE {SortedPositions([k \in 1..Len(rows) |-> 0 - key[k]], "first")}

\* AIAgent._analyze_correlations
_analyze_correlations(d, s, order) ==
  IF TooFewNumeric(s)
  THEN Fallback("I need at least two numeric columns to analyze correlations.",
                "correlation")
  ELSE
    LET rows == correlations(d, s)
        sorted == [k \in 1..Len(rows) |-> rows[order[k]]]
        shown == Take(sorted, 10)
    IN  << Returned([ text |-> "Correlation analysis between numeric columns",
                      found |-> Len(sorted) ],
                    [ type |-> "table",
                      data |-> [k \in 1..Len(shown) |-> shown[k].row] ],
                    [query_type |-> "correlation"]),
           [ handler |-> "_analyze_correlations",
             corr_vals |-> [k \in 1..Len(shown) |-> shown[k].corr_val] ] >>

(***************************** general ***************************************)
\* AIAgent._general_analysis
_general_analysis(d, s) ==
  LET insights == [ rows |-> len(d), columns |-> Len(d.columns),
                    numeric |-> Len(s.numeric_columns),
                    categorical |-> Len(s.categorical_columns) ]
      cols == Take(s.numeric_columns, 5)
  IN  IF s.numeric_columns # <<>>
      THEN << Returned([text |-> "insights and chart note", insights |-> insights],
                       [ type |-> "bar",
                         data |-> [c \in 1..Len(cols) |->
                                     [ label |-> <<"str", cols[c]>>,
                                       value |-> mean(Column(d, cols[c])) ]] ],
                       [query_type |-> "general"]),
              NoLocals >>
      ELSE << Returned([text |-> "insights", insights |-> insights],
                       EmptyVisualization, [query_type |-> "general"]),
              NoLocals >>

(***************************** process_query *********************************)
\* Route with the aggregates test placed before the comparison test
Route_AggregatesFirst(q) ==
  LET query_lower == Lower(q)
  IN  IF AnyIn(query_lower, trend_words) THEN "_analyze_trends"
      ELSE IF AnyIn(query_lower, statistics_words) THEN "_generate_statistics"
      ELSE IF AnyIn(query_lower, aggregates_words) THEN "_calculate_aggregates"
      ELSE IF AnyIn(query_lower, comparison_words) THEN "_compare_data"
      ELSE IF AnyIn(query_lower, extremes_words) THEN "_find_extremes"
      ELSE IF AnyIn(query_lower, correlation_words) THEN "_analyze_correlations"
      ELSE "_general_analysis"

\* the if/elif chain of AIAgent.process_query: the handler called
Route(q) ==
  LET query_lower == Lower(q)
  IN  IF AnyIn(query_lower, trend_words) THEN "_analyze_trends"
      ELSE IF AnyIn(query_lower, statistics_words) THEN "_generate_statistics"
      ELSE IF AnyIn(query_lower, comparison_words) THEN "_compare_data"
      ELSE IF AnyIn(query_lower, extremes_words) THEN "_find_extremes"
      ELSE IF AnyIn(query_lower, aggregates_words) THEN "_calculate_aggregates"
      ELSE IF AnyIn(query_lower, correlation_words) THEN "_analyze_correlations"
      ELSE "_general_analysis"

NoResult == [status |-> "none"]
NoSummary ==
  [ columns |-> <<>>, numeric_columns |-> <<>>, categorical_columns |-> <<>>,
    row_count |-> 0, column_count |-> 0 ]

\* process_query up to the call of the handler
process_query ==
  /\ pc = "process_query"
  /\ summary' = _get_data_summary(df)
  /\ pc' = Route(query)
  /\ UNCHANGED <<df, query, locals, result, orders, history, nvars, ivars, avars>>

\* the rows of the caller's frame laid out at the given positions
caller_frame_InPlace(d, positions) ==
  [ d EXCEPT !.columns = [c \in 1..Len(d.columns) |->
                            [ d.columns[c] EXCEPT !.values =
                                [k \in 1..Len(positions) |->
                                   d.columns[c].values[positions[k]]] ]],
             !.nrows = Len(positions) ]

\* df.sort_values(by=...), df.nsmallest(...) and df.nlargest(...) are called
\* without inplace=True: the rows at the positions they compute go to a new
\* frame (df_sorted, top_data) and the caller's frame keeps its rows
caller_frame(d, positions) == d

\* the frame the handler leaves to the caller of process_query
frame_after(d, loc) ==
  IF loc.handler = "_analyze_trends" THEN caller_frame(d, loc.df_sorted)
  ELSE IF loc.handler = "_find_extremes" THEN caller_frame(d, loc.top_data)
  ELSE d

\* the build is not fixed: every sort may give any order its contract allows
NoOrders == [trend |-> <<>>, compare |-> <<>>, correlation |-> <<>>]

\* A sort is a function of its input: a fixed build gives the equal keys of a
\* table the same order at every call.
Known(fixed, options) == IF fixed = <<>> THEN options ELSE {fixed[1]}

Untracked == [tracking |-> FALSE, calls |-> 0, query |-> <<>>, result |-> [status |-> "none"]]
Tracked == [tracking |-> TRUE, calls |-> 0, query |-> <<>>, result |-> [status |-> "none"]]

\* the first completed call is kept; later calls are counted up to 2
Recorded(h, q, r) ==
  IF ~h.tracking THEN h
  ELSE IF h.calls = 0 THEN [tracking |-> TRUE, calls |-> 1, query |-> q, result |-> r]
  ELSE [h EXCEPT !.calls = 2]

Return(pair) ==
  /\ result' = pair[1]
  /\ locals' = pair[2]
  /\ df' = frame_after(df, pair[2])
  /\ history' = Recorded(history, query, pair[1])
  /\ pc' = "done"
  /\ UNCHANGED <<query, summary, orders, nvars, ivars, avars>>

analyze_trends ==
  /\ pc = "_analyze_trends"
  /\ \E ties \in Known(orders.trend, TieOrders) :
        Return(_analyze_trends(df, summary, ties))

generate_statistics ==
  /\ pc = "_generate_statistics"
  /\ Return(_generate_statistics(df, summary))

compare_data ==
  /\ pc = "_compare_data"
  /\ \E ties \in Known(orders.compare, TieOrders) :
        Return(_compare_data(df, summary, ties))

find_extremes ==
  /\ pc = "_find_extremes"
  /\ Return(_find_extremes(df, query, summary))

calculate_aggregates ==
  /\ pc = "_calculate_aggregates"
  /\ Return(_calculate_aggregates(df, summary))

analyze_correlations ==
  /\ pc = "_analyze_correlations"
  /\ \E order \in (IF TooFewNumeric(summary) THEN {<<>>}
                   ELSE Known(orders.correlation,
                              SortOrders(correlations(df, summary)))) :
        Return(_analyze_correlations(df, summary, order))

general_analysis ==
  /\ pc = "_general_analysis"
  /\ Return(_general_analysis(df, summary))

\* idle values of the endpoints' state
NoRequest == [endpoint |-> "none"]
NoResponse == [status_code |-> 0]

\* idle values of the normalizer's state
NoFile == [kind |-> "none"]
NoTable == [columns |-> <<>>, index |-> <<>>]

(***************************** inputs ****************************************)
\* pieces of query text: keywords in mixed case, and pieces that make a
\* keyword only when joined ("sum" "mary", "v" "s")
Fragments ==
  { <<"A","v","e","r","a","g","e">>,
    <<"C","O","M","P","A","R","E">>,
    <<"s","u","m">>,
    <<"m","a","r","y">>,
    <<"T","r","e","n","d">>,
    <<"t","o","p">>,
    <<"v">>,
    <<"s">>,
    <<"W","o","r","s","t">>,
    <<"r","e","l","a","t","e">>,
    <<"m","i","n","i","m","u","m">>,
    <<" ">>,
    <<"x">> }

AllQueries ==
  { Concat(fs) : fs \in UNION { [1..n -> Fragments] : n \in 0..MaxWords } }

\* one query or more for every handler
CoreQueries ==
  { <<"t","r","e","n","d">>,
    <<"S","t","a","t","s">>,
    <<"C","O","M","P","A","R","E">>,
    <<"t","o","p">>,
    <<"W","o","r","s","t">>,
    <<"t","o","p"," ","m","i","n","i","m","u","m">>,
    <<"A","v","e","r","a","g","e">>,
    <<"r","e","l","a","t","e">>,
    <<"x">>,
    <<"A","v","e","r","a","g","e"," ","C","O","M","P","A","R","E">> }

\* Pearson coefficients in units of 1e-4: around each threshold of
\* _interpret_correlation, both signs, and the ends of the range.  A value
\* exactly half-way between two 3-decimal numbers is left out: no double is.
Thresholds == {2000, 4000, 7000}

FineGrid ==
  { v \in { sgn * (t + dlt) : sgn \in {-1, 1}, t \in Thresholds,
                              dlt \in (0 - Near)..Near } : abs(v) % 10 # 5 }
  \cup {NaN, 0, 10000, -10000}

CoarseGrid == {NaN, -10000, -6996, 0, 1999, 4000, 7003}

\* the coefficients of a generated table: NaN below two rows
DefaultPearson(shape, n, seed) ==
  [ p \in Pairs(NumericCount(shape)) |->
      IF n < 2 THEN NaN
      ELSE <<-6996, 3130, 8, 7000, -1999>>[((seed + p[1] + 2 * p[2]) % 5) + 1] ]

\* routing reads the query alone: two tables are enough
RoutingShapes == { <<>>, <<"object", "number", "number">> }

RoutingInputs ==
  { <<MakeTable(shape, 1, 0, DefaultPearson(shape, 1, 0)), q>> :
      shape \in RoutingShapes, q \in AllQueries }

AnalysisInputs ==
  { <<MakeTable(in[1], in[2], in[3], DefaultPearson(in[1], in[2], in[3])), q>> :
      in \in Shapes \X (0..MaxRows) \X (0..MaxSeed), q \in CoreQueries }

CorrelationTables ==
  UNION { { MakeTable(shape, 3, 0, pearson) :
              pearson \in [ Pairs(NumericCount(shape)) ->
                              IF NumericCount(shape) = 2 THEN FineGrid
                                                         ELSE CoarseGrid ] } :
          shape \in { sh \in Shapes : NumericCount(sh) >= 2 } }

CorrelationInputs ==
  CorrelationTables \X { <<"r","e","l","a","t","e">> }

QueryInputs == RoutingInputs \cup AnalysisInputs \cup CorrelationInputs

(***************************** the query engine ******************************)
QueryInit ==
  /\ pc = "process_query"
  /\ \E in \in QueryInputs : df = in[1] /\ query = in[2]
  /\ summary = NoSummary
  /\ locals = NoLocals
  /\ result = NoResult
  /\ orders = NoOrders /\ history = Untracked
  /\ names = <<>> /\ names_before = <<>>
  /\ file_contents = NoFile /\ filename = <<>>
  /\ read_df = NoTable /\ sheet_names = <<>>
  /\ clean_df = NoTable /\ outcome = NoResult
  /\ uploaded_files = <<>> /\ data_cache = <<>>
  /\ request = NoRequest /\ response = NoResponse /\ engine_calls = 0

\* the caller asks again about the same table
next_query ==
  /\ pc = "done"
  /\ \E q \in CoreQueries : query' = q
  /\ pc' = "process_query"
  /\ summary' = NoSummary
  /\ locals' = NoLocals
  /\ result' = NoResult
  /\ UNCHANGED <<df, orders, history, nvars, ivars, avars>>

QueryNext ==
  \/ process_query
  \/ analyze_trends
  \/ generate_statistics
  \/ compare_data
  \/ find_extremes
  \/ calculate_aggregates
  \/ analyze_correlations
  \/ general_analysis
  \/ next_query

SpecQuery == QueryInit /\ [][QueryNext]_vars

(***************************** properties of the query engine ***************)
\* the handler that ran or is running, read off the state
HandlerOf ==
  [ trend_analysis |-> "_analyze_trends", statistics |-> "_generate_statistics",
    comparison |-> "_compare_data", extremes |-> "_find_extremes",
    aggregates |-> "_calculate_aggregates", correlation |-> "_analyze_correlations",
    general |-> "_general_analysis" ]

Handled ==
  IF pc = "done" /\ result.status = "returned"
  THEN HandlerOf[result.metadata.query_type]
  ELSE pc

\* the keyword sets in their priority order
KeywordSets ==
  << [handler |-> "_analyze_trends",       words |-> trend_words],
     [handler |-> "_generate_statistics",  words |-> statistics_words],
     [handler |-> "_compare_data",         words |-> comparison_words],
     [handler |-> "_find_extremes",        words |-> extremes_words],
     [handler |-> "_calculate_aggregates", words |-> aggregates_words],
     [handler |-> "_analyze_correlations", words |-> correlation_words] >>

Matching(q) ==
  { i \in 1..Len(KeywordSets) : AnyIn(Lower(q), KeywordSets[i].words) }

FirstMatch(q) ==
  IF Matching(q) = {} THEN "_general_analysis"
  ELSE KeywordSets[CHOOSE i \in Matching(q) : \A j \in Matching(q) : i <= j].handler

\* C1: every query is handled by exactly the handler of the first keyword set,
\* in the order trend, statistics, comparison, extremes, aggregates,
\* correlation, that has a keyword occurring in the lower-cased query, and by
\* the general handler when no set has one.
C1_FirstMatchWins ==
  pc # "process_query" => Handled = FirstMatch(query)

\* a query with "average" and "compare" in it is being handled as a comparison
C1_Witness ==
  /\ pc = "_compare_data"
  /\ Contains(Lower(query), aggregates_words[1])
  /\ Contains(Lower(query), comparison_words[1])
  /\ query # Lower(query)

NumericColumnsOf(d) == {c \in 1..Len(d.columns) : d.columns[c].dtype = "number"}
ObjectColumnsOf(d) == {c \in 1..Len(d.columns) : d.columns[c].dtype = "object"}

\* the column requirement of the routed intent is not met by the table
RequirementUnmet(handler, d) ==
  LET nnum == Cardinality(NumericColumnsOf(d))
      nobj == Cardinality(ObjectColumnsOf(d))
  IN  \/ handler \in {"_analyze_trends", "_find_extremes", "_calculate_aggregates"}
         /\ nnum = 0
      \/ handler = "_compare_data" /\ (nobj = 0 \/ nnum = 0)
      \/ handler = "_analyze_correlations" /\ nnum < 2

FallbackText ==
  [ trend_analysis |-> "I couldn't find any numeric columns to analyze trends. Your data appears to be primarily categorical.",
    comparison |-> "I need both categorical and numeric columns to make comparisons. Please check your data structure.",
    extremes |-> "I couldn't find numeric columns to identify top or bottom values.",
    aggregates |-> "No numeric columns found for aggregate calculations.",
    correlation |-> "I need at least two numeric columns to analyze correlations." ]

\* C2: process_query returns a result and never raises; when the column
\* requirement of the routed intent is not met, the result carries the
\* explanatory answer of that intent and the empty visualization.
C2_NeverRaises ==
  pc = "done" =>
    /\ result.status = "returned"
    /\ RequirementUnmet(FirstMatch(query), df) =>
         /\ result.visualization = EmptyVisualization
         /\ result.answer.text = FallbackText[result.metadata.query_type]

\* a comparison was asked of a table with a text column and no numeric column
C2_Witness ==
  /\ pc = "done"
  /\ result.status = "returned"
  /\ result.metadata.query_type = "comparison"
  /\ ObjectColumnsOf(df) # {} /\ NumericColumnsOf(df) = {}
  /\ result.visualization = EmptyVisualization

\* the values of the first numeric column
FirstNumeric(d) ==
  d.columns[CHOOSE c \in NumericColumnsOf(d) :
              \A c2 \in NumericColumnsOf(d) : c <= c2].values

TrendBinned ==
  /\ pc = "done"
  /\ result.status = "returned"
  /\ result.metadata.query_type = "trend_analysis"
  /\ NumericColumnsOf(df) # {}
  /\ len(df) > 20

\* C3: in the trend branch with more than 20 rows there are exactly 10 chart
\* points "Segment 1" .. "Segment 10"; their index ranges over the rows sorted
\* ascending by the first numeric column are contiguous, the first nine hold
\* r div 10 rows each, the tenth the rest, and every row is in exactly one bin.
C3_BinsPartitionRows ==
  TrendBinned =>
    LET r == len(df)
        chart == result.visualization.data
        rg == locals.ranges
        srt == locals.df_sorted
        vals == FirstNumeric(df)
    IN  /\ locals.handler = "_analyze_trends"
        /\ Len(chart) = 10
        /\ \A b \in 1..10 : chart[b].label = <<"Segment", b>>
        /\ Len(srt) = r
        /\ \A k \in 1..(r - 1) :
              NaNLast(vals[srt[k]]) <= NaNLast(vals[srt[k + 1]])
        /\ rg[1].start_idx = 0
        /\ \A b \in 1..9 : rg[b + 1].start_idx = rg[b].end_idx
        /\ rg[10].end_idx = r
        /\ \A b \in 1..9 : rg[b].end_idx - rg[b].start_idx = r \div 10
        /\ rg[10].end_idx - rg[10].start_idx = r - 9 * (r \div 10)
        /\ \A row \in 1..r :
              Cardinality({ bk \in (1..10) \X (1..r) :
                              /\ rg[bk[1]].start_idx < bk[2]
                              /\ bk[2] <= rg[bk[1]].end_idx
                              /\ srt[bk[2]] = row }) = 1

\* a trend over a table whose row count is above 20 and no multiple of 10
C3_Witness ==
  /\ TrendBinned
  /\ len(df) % 10 # 0
  /\ len(df) >= 30
  /\ locals.ranges[10].end_idx - locals.ranges[10].start_idx > len(df) \div 10

ExtremesTop ==
  /\ pc = "done"
  /\ result.status = "returned"
  /\ result.metadata.query_type = "extremes"
  /\ NumericColumnsOf(df) # {}
  /\ \A w \in 1..Len(bottom_words) : ~Contains(Lower(query), bottom_words[w])

\* the rows of the table whose first numeric value is not NaN
ValuedRows(d) == {i \in 1..len(d) : FirstNumeric(d)[i] # NaN}

\* v is the 11th-largest value of the first numeric column
IsEleventhLargest(d, v) ==
  /\ \E i \in ValuedRows(d) : FirstNumeric(d)[i] = v
  /\ Cardinality({i \in ValuedRows(d) : FirstNumeric(d)[i] > v}) <= 10
  /\ Cardinality({i \in ValuedRows(d) : FirstNumeric(d)[i] >= v}) >= 11

\* C4: in the extremes branch with direction top the selected subset has at
\* most 10 rows and at most as many rows as the table, every value in it is at
\* least the 11th-largest value of the first numeric column, and rows with
\* equal values are taken in original row order.
C4_TopTen ==
  ExtremesTop =>
    LET top == locals.top_data
        vals == FirstNumeric(df)
        chosen == {top[k] : k \in 1..Len(top)}
    IN  /\ locals.handler = "_find_extremes"
        /\ result.metadata.direction = "highest"
        /\ Len(top) <= 10
        /\ Len(top) <= len(df)
        /\ Cardinality(chosen) = Len(top)
        /\ chosen \subseteq 1..len(df)
        /\ \A v \in {vals[i] : i \in ValuedRows(df)} :
              IsEleventhLargest(df, v) =>
                 \A i \in chosen : vals[i] # NaN /\ vals[i] >= v
        /\ \A k, l \in 1..Len(top) :
              (k < l /\ vals[top[k]] = vals[top[l]]) => top[k] < top[l]
        /\ \A i \in chosen : \A u \in (1..len(df)) \ chosen :
              vals[i] = vals[u] => i < u

\* top rows of a table with more than 10 valued rows, where a value of the
\* subset also occurs in a row left out
C4_Witness ==
  /\ ExtremesTop
  /\ Cardinality(ValuedRows(df)) > 10
  /\ Len(locals.top_data) = 10
  /\ \E k \in 1..10 : \E u \in 1..len(df) :
        /\ \A l \in 1..10 : locals.top_data[l] # u
        /\ FirstNumeric(df)[u] = FirstNumeric(df)[locals.top_data[k]]
  /\ \E k \in 1..9 :
        FirstNumeric(df)[locals.top_data[k]] = FirstNumeric(df)[locals.top_data[k + 1]]

CorrelationDone ==
  /\ pc = "done"
  /\ result.status = "returned"
  /\ locals.handler = "_analyze_correlations"

\* the label the documented thresholds give to a magnitude, in the unit
\* where the thresholds are s07, s04, s02
ThresholdLabel(a, s07, s04, s02) ==
  IF a = NaN THEN "Very Weak"
  ELSE IF a >= s07 THEN "Strong"
  ELSE IF a >= s04 THEN "Moderate"
  ELSE IF a >= s02 THEN "Weak"
  ELSE "Very Weak"

\* C5 as claimed: in every row of the correlation table the Strength is the
\* label the thresholds 0.7, 0.4, 0.2 give to the absolute value of the
\* coefficient the row reports (the 3-decimal Correlation).
C5_LabelOfReported ==
  CorrelationDone =>
    \A k \in 1..Len(result.visualization.data) :
       LET row == result.visualization.data[k]
       IN  row.Strength = ThresholdLabel(abs(row.Correlation), 700, 400, 200)

\* C5 as amended: the Strength of a row is the label the thresholds give to
\* the absolute value of the unrounded coefficient, the Correlation of the row
\* is that coefficient rounded to 3 decimals, and the Strength differs from the
\* label of the reported value only when the coefficient lies less than 0.0005
\* below a threshold.
C5_LabelOfUnrounded ==
  CorrelationDone =>
    \A k \in 1..Len(result.visualization.data) :
       LET row == result.visualization.data[k]
           r == locals.corr_vals[k]
       IN  /\ row.Strength = ThresholdLabel(abs(r), 7000, 4000, 2000)
           /\ (r = NaN) = (row.Correlation = NaN)
           /\ r # NaN =>
                /\ 10 * row.Correlation - r <= 5
                /\ r - 10 * row.Correlation <= 5
           /\ row.Strength # ThresholdLabel(abs(row.Correlation), 700, 400, 200)
                => \E t \in Thresholds : t - 5 <= abs(r) /\ abs(r) < t

\* a row reports -0.700 and is labelled Moderate
C5_Witness ==
  /\ CorrelationDone
  /\ \E k \in 1..Len(result.visualization.data) :
        /\ locals.corr_vals[k] = -6996
        /\ result.visualization.data[k].Correlation = -700
        /\ result.visualization.data[k].Strength = "Moderate"

(***************************** column names **********************************)
\* Text of the normalizer is a sequence of Unicode code points.
SpaceChars == {9, 10, 13, 32}
UpperLetters == (65..90) \cup {195, 201, 304}
LowerLetters == (97..122) \cup {227, 233}
Digits == 48..57

\* \w of the re module: letters, digits and the underscore.  The combining
\* dot U+0307 (775), the control U+0080 (128), '-', '.', the euro sign and the
\* copyright sign are not.
IsWord(c) == c \in UpperLetters \cup LowerLetters \cup Digits \cup {95}

\* str.lower() of one character: U+0130 becomes 'i' followed by U+0307
lower_char(c) ==
  IF c \in 65..90 THEN <<c + 32>>
  ELSE IF c = 195 THEN <<227>>
  ELSE IF c = 201 THEN <<233>>
  ELSE IF c = 304 THEN <<105, 775>>
  ELSE <<c>>

RECURSIVE lower(_)
lower(s) == IF s = <<>> THEN <<>> ELSE lower_char(Head(s)) \o lower(Tail(s))

RECURSIVE lstrip(_, _)
lstrip(s, chars) ==
  IF s # <<>> /\ Head(s) \in chars THEN lstrip(Tail(s), chars) ELSE s

RECURSIVE rstrip(_, _)
rstrip(s, chars) ==
  IF s # <<>> /\ s[Len(s)] \in chars THEN rstrip(SubSeq(s, 1, Len(s) - 1), chars)
  ELSE s

\* str.strip() and str.strip(chars)
strip(s, chars) == rstrip(lstrip(s, chars), chars)

\* re.sub(r'[^\w\s]', '_', s)
sub_nonword(s) ==
  [i \in 1..Len(s) |-> IF IsWord(s[i]) \/ s[i] \in SpaceChars THEN s[i] ELSE 95]

\* re.sub(r'\s+', '_', s) and re.sub(r'_+', '_', s): every run of characters
\* of the class becomes one underscore
RECURSIVE sub_runs(_, _)
sub_runs(s, class) ==
  IF s = <<>> THEN <<>>
  ELSE IF Head(s) \in class THEN <<95>> \o sub_runs(lstrip(s, class), class)
  ELSE <<Head(s)>> \o sub_runs(Tail(s), class)

unnamed_column == <<117, 110, 110, 97, 109, 101, 100, 95, 99, 111, 108, 117, 109, 110>>

\* a header that is NaN
NaNName == <<NaN>>

\* lines 100-102: substitute, then lower-case
sub_then_lower(col_str) == lower(sub_runs(sub_nonword(col_str), SpaceChars))

\* DataProcessor._clean_column_name
_clean_column_name(col) ==
  IF col = NaNName \/ strip(col, SpaceChars) = <<>> THEN unnamed_column
  ELSE LET stripped == strip(col, SpaceChars)
           lowered == sub_then_lower(stripped)
           col_str == strip(sub_runs(lowered, {95}), {95})
       IN  IF col_str # <<>> THEN col_str ELSE unnamed_column

\* df.columns.duplicated(): a name seen at an earlier position
duplicated_name(cols, c) == \E b \in 1..(c - 1) : cols[b] = cols[c]

\* lines 74-76 of _clean_dataframe on the list of column names
clean_names(cols) ==
  LET cleaned == [c \in 1..Len(cols) |-> _clean_column_name(cols[c])]
      kept == SelectSeq([c \in 1..Len(cols) |-> c],
                        LAMBDA c : ~duplicated_name(cleaned, c))
  IN  [k \in 1..Len(kept) |-> cleaned[kept[k]]]

HeaderChars == {97, 66, 49, 95, 32, 45, 304}

Headers(maxlen) == UNION { [1..n -> HeaderChars] : n \in 0..maxlen } \cup {NaNName}

HeaderLists ==
  { <<h>> : h \in Headers(MaxHeaderLen) }
    \cup { <<hs[1], hs[2]>> : hs \in Headers(MaxHeaderLen - 2) \X Headers(MaxHeaderLen - 2) }
    \cup { << <<105, 775>>, <<105>> >> }

NamesInit ==
  /\ pc = "names_raw"
  /\ names \in HeaderLists
  /\ names_before = <<>>
  /\ df = NoTable /\ query = <<>> /\ summary = NoSummary
  /\ locals = NoLocals /\ result = NoResult
  /\ orders = NoOrders /\ history = Untracked
  /\ file_contents = NoFile /\ filename = <<>>
  /\ read_df = NoTable /\ sheet_names = <<>>
  /\ clean_df = NoTable /\ outcome = NoResult
  /\ uploaded_files = <<>> /\ data_cache = <<>>
  /\ request = NoRequest /\ response = NoResponse /\ engine_calls = 0

\* the column-name step of _clean_dataframe, run on the names it produced
clean_columns ==
  /\ pc \in {"names_raw", "names_pass1"}
  /\ names' = clean_names(names)
  /\ names_before' = names
  /\ pc' = IF pc = "names_raw" THEN "names_pass1" ELSE "names_pass2"
  /\ UNCHANGED <<qvars, ivars, avars>>

NamesNext == clean_columns

SpecNames == NamesInit /\ [][NamesNext]_vars

\* C10: normalizing an already normalized list of column names returns the
\* same names in the same order; for a single header h this is
\* _clean_column_name(_clean_column_name(h)) = _clean_column_name(h).
C10_Idempotent ==
  pc = "names_pass2" => names = names_before

(***************************** ingestion: cells and tables *******************)
\* A cell of an ingested table is missing, a number <<v>> or a text (code
\* points).
NaNCell == [t |-> "nan", v |-> <<>>]
Num(v) == [t |-> "num", v |-> <<v>>]
Str(s) == [t |-> "str", v |-> s]
isna(cell) == cell.t = "nan"

\* a RangeIndex 0..n-1
RangeIndex(n) == [k \in 1..n |-> k - 1]

Ok(table) == [status |-> "ok", df |-> table]
Error(error, message) == [status |-> "raised", error |-> error, message |-> message]

(***************************** ingestion: decoding ***************************)
DecodeFailed == [ok |-> FALSE, text |-> <<>>]

\* bytes.decode('utf-8') of one field
RECURSIVE decode_utf8(_)
decode_utf8(b) ==
  IF b = <<>> THEN [ok |-> TRUE, text |-> <<>>]
  ELSE LET b1 == b[1]
           n == IF b1 < 128 THEN 1
                ELSE IF b1 \in 194..223 THEN 2
                ELSE IF b1 \in 224..239 THEN 3
                ELSE IF b1 \in 240..244 THEN 4
                ELSE 0
           wellFormed ==
             /\ n > 0 /\ Len(b) >= n
             /\ \A i \in 2..n : b[i] \in 128..191
             /\ b1 = 224 => b[2] >= 160
             /\ b1 = 237 => b[2] <= 159
             /\ b1 = 240 => b[2] >= 144
             /\ b1 = 244 => b[2] <= 143
           cp == IF n = 1 THEN b1
                 ELSE IF n = 2 THEN (b1 - 192) * 64 + (b[2] - 128)
                 ELSE IF n = 3 THEN (b1 - 224) * 4096 + (b[2] - 128) * 64 + (b[3] - 128)
                 ELSE (b1 - 240) * 262144 + (b[2] - 128) * 4096
                        + (b[3] - 128) * 64 + (b[4] - 128)
       IN  IF ~wellFormed THEN DecodeFailed
           ELSE LET rest == decode_utf8(SubSeq(b, n + 1, Len(b)))
                IN  IF rest.ok THEN [ok |-> TRUE, text |-> <<cp>> \o rest.text]
                    ELSE DecodeFailed

\* bytes.decode('latin-1'), which is also 'iso-8859-1': byte b is U+00b
decode_latin1(b) == [ok |-> TRUE, text |-> b]

\* the characters CP1252 assigns to the bytes 0x80..0x9F (0: unassigned)
Cp1252High ==
  << 8364, 0, 8218, 402, 8222, 8230, 8224, 8225, 710, 8240, 352, 8249, 338, 0,
     381, 0, 0, 8216, 8217, 8220, 8221, 8226, 8211, 8212, 732, 8482, 353, 8250,
     339, 0, 382, 376 >>

cp1252_char(byte) == IF byte \in 128..159 THEN Cp1252High[byte - 127] ELSE byte

\* bytes.decode('cp1252')
decode_cp1252(b) ==
  IF \E i \in 1..Len(b) : cp1252_char(b[i]) = 0 THEN DecodeFailed
  ELSE [ok |-> TRUE, text |-> [i \in 1..Len(b) |-> cp1252_char(b[i])]]

decode(b, encoding) ==
  IF encoding = "utf-8" THEN decode_utf8(b)
  ELSE IF encoding \in {"latin-1", "iso-8859-1"} THEN decode_latin1(b)
  ELSE decode_cp1252(b)

(***************************** ingestion: _read_csv ***************************)
\* The bytes of a CSV file are its lines, each line the fields between its
\* commas, each field its bytes (the separators are ASCII in every encoding
\* of the list).
IsNumeral(s) == s # <<>> /\ \A i \in 1..Len(s) : s[i] \in Digits

RECURSIVE NumeralValue(_)
NumeralValue(s) ==
  IF s = <<>> THEN 0
  ELSE 10 * NumeralValue(SubSeq(s, 1, Len(s) - 1)) + (s[Len(s)] - 48)

\* skip_blank_lines=True: a line with no character is not a record
blank_line(line) == line = << <<>> >>

\* the field of a record at a column, missing when the record is short
FieldAt(line, c) == IF c <= Len(line) THEN line[c] ELSE <<>>

\* the column of a parsed file: int64/float64 when every present field is a
\* numeral, object otherwise and when the file has no record
csv_column(name, texts) ==
  LET present == { k \in 1..Len(texts) : texts[k] # <<>> }
      numeric == texts # <<>> /\ \A k \in present : IsNumeral(texts[k])
  IN  [ name |-> name,
        dtype |-> IF numeric THEN "number" ELSE "object",
        values |-> [k \in 1..Len(texts) |->
                      IF texts[k] = <<>> THEN NaNCell
                      ELSE IF numeric THEN Num(NumeralValue(texts[k]))
                      ELSE Str(texts[k])] ]

\* pd.read_csv(io.BytesIO(file_contents), encoding=encoding) for a file whose
\* first record is not longer than its header
read_csv(contents, encoding) ==
  LET records == SelectSeq(contents.lines, LAMBDA line : ~blank_line(line))
  IN  IF records = <<>>
      THEN Error("EmptyDataError", "No columns to parse from file")
      ELSE IF \E r \in 1..Len(records) : \E c \in 1..Len(records[r]) :
                ~decode(records[r][c], encoding).ok
      THEN Error("UnicodeDecodeError", "can't decode byte")
      ELSE IF \E r \in 3..Len(records) : Len(records[r]) > Len(records[1])
      THEN Error("ParserError", "Error tokenizing data")
      ELSE LET header == records[1]
               rows == Tail(records)
           IN  Ok([ columns |->
                      [c \in 1..Len(header) |->
                         csv_column(decode(header[c], encoding).text,
                                    [k \in 1..Len(rows) |->
                                       decode(FieldAt(rows[k], c), encoding).text])],
                    index |-> RangeIndex(Len(rows)) ])

encodings == <<"utf-8", "latin-1", "iso-8859-1", "cp1252">>

\* the loop of _read_csv from the k-th encoding on
RECURSIVE try_encodings(_, _)
try_encodings(contents, k) ==
  IF k > Len(encodings)
  THEN Error("ValueError", "Could not decode CSV file with any common encoding")
  ELSE LET attempt == read_csv(contents, encodings[k])
       IN  IF attempt.status = "ok" THEN attempt
           ELSE IF attempt.error \in {"UnicodeDecodeError", "ParserError"}
           THEN try_encodings(contents, k + 1)
           ELSE attempt

\* DataProcessor._read_csv
_read_csv(contents) == try_encodings(contents, 1)

(***************************** ingestion: _read_excel *************************)
\* A workbook is its sheets in order; a sheet has a name, a header row and
\* rows of cells, or cannot be parsed.  Bytes that are no workbook are a file
\* of another kind.
source_sheet == <<95, 115, 111, 117, 114, 99, 101, 95, 115, 104, 101, 101, 116>>

\* the dtype pandas gives a column of cells
cells_dtype(values) ==
  IF values # <<>> /\ \A k \in 1..Len(values) : values[k].t \in {"nan", "num"}
  THEN "number" ELSE "object"

\* pd.read_excel(io.BytesIO(file_contents), sheet_name=...) of one sheet
read_excel(sheet) ==
  IF ~sheet.readable THEN Error("Exception", "sheet cannot be parsed")
  ELSE Ok([ columns |->
              [c \in 1..Len(sheet.header) |->
                 LET values == [k \in 1..Len(sheet.rows) |-> sheet.rows[k][c]]
                 IN  [ name |-> sheet.header[c], dtype |-> cells_dtype(values),
                       values |-> values ]],
            index |-> RangeIndex(Len(sheet.rows)) ])

\* sheet_df.empty
empty(table) == Len(table.columns) = 0 \/ Len(table.index) = 0

\* sheet_df['_source_sheet'] = sheet
tag_source_sheet(table, sheet) ==
  LET tag == [ name |-> source_sheet, dtype |-> "object",
               values |-> [k \in 1..Len(table.index) |-> Str(sheet)] ]
  IN  [ table EXCEPT !.columns =
          IF \E c \in 1..Len(table.columns) : table.columns[c].name = source_sheet
          THEN [c \in 1..Len(table.columns) |->
                  IF table.columns[c].name = source_sheet THEN tag
                  ELSE table.columns[c]]
          ELSE Append(table.columns, tag) ]

\* the tagged tables of the sheets that parse and are not empty, in order
RECURSIVE tagged_sheets(_)
tagged_sheets(sheets) ==
  IF sheets = <<>> THEN <<>>
  ELSE LET attempt == read_excel(Head(sheets))
       IN  IF attempt.status = "ok" /\ ~empty(attempt.df)
           THEN <<tag_source_sheet(attempt.df, Head(sheets).name)>>
                  \o tagged_sheets(Tail(sheets))
           ELSE tagged_sheets(Tail(sheets))

\* the column names of the tables of a list, in order of first appearance
RECURSIVE union_names(_)
union_names(dfs) ==
  IF dfs = <<>> THEN <<>>
  ELSE LET before == union_names(SubSeq(dfs, 1, Len(dfs) - 1))
           last == dfs[Len(dfs)].columns
           fresh == SelectSeq(last, LAMBDA col :
                                \A b \in 1..Len(before) : before[b] # col.name)
       IN  before \o [c \in 1..Len(fresh) |-> fresh[c].name]

\* the cells a table contributes to a column of the concatenation
part_values(table, name) ==
  IF \E c \in 1..Len(table.columns) : table.columns[c].name = name
  THEN LET c == CHOOSE c \in 1..Len(table.columns) : table.columns[c].name = name
       IN  table.columns[c].values
  ELSE [k \in 1..Len(table.index) |-> NaNCell]

\* pd.concat(dfs, ignore_index=True)
concat(dfs) ==
  LET colnames == union_names(dfs)
      total == SumSeq([d \in 1..Len(dfs) |-> Len(dfs[d].index)])
  IN  [ columns |->
          [c \in 1..Len(colnames) |->
             LET values == Concat([d \in 1..Len(dfs) |-> part_values(dfs[d], colnames[c])])
             IN  [ name |-> colnames[c], dtype |-> cells_dtype(values),
                   values |-> values ]],
        index |-> RangeIndex(total) ]

ExcelError == Error("Exception", "Error reading Excel file")

\* DataProcessor._read_excel: the table and the sheet names
_read_excel(contents) ==
  IF contents.kind # "workbook" THEN ExcelError
  ELSE LET sheets == contents.sheets
           names_of_sheets == [k \in 1..Len(sheets) |-> sheets[k].name]
           first == read_excel(sheets[1])
           dfs == tagged_sheets(sheets)
           table == IF Len(sheets) = 1 THEN first
                    ELSE IF dfs # <<>> THEN Ok(concat(dfs))
                    ELSE first
       IN  IF table.status = "ok"
           THEN [status |-> "ok", df |-> table.df, sheet_names |-> names_of_sheets]
           ELSE ExcelError

(***************************** ingestion: _clean_dataframe ********************)
\* the cells of the row at position k
Row(table, k) == [c \in 1..Len(table.columns) |-> table.columns[c].values[k]]

\* the rows at the positions of a list, with their index labels
take_rows(table, positions) ==
  [ columns |->
      [c \in 1..Len(table.columns) |->
         [ table.columns[c] EXCEPT !.values =
             [k \in 1..Len(positions) |-> table.columns[c].values[positions[k]]] ]],
    index |-> [k \in 1..Len(positions) |-> table.index[positions[k]]] ]

Positions(table) == [k \in 1..Len(table.index) |-> k]

\* lines 74-76: clean the column names, keep the first column of each name
rename_columns(table) ==
  LET cleaned == [c \in 1..Len(table.columns) |->
                    _clean_column_name(table.columns[c].name)]
      kept == SelectSeq([c \in 1..Len(table.columns) |-> c],
                        LAMBDA c : ~duplicated_name(cleaned, c))
  IN  [ table EXCEPT !.columns =
          [k \in 1..Len(kept) |->
             [table.columns[kept[k]] EXCEPT !.name = cleaned[kept[k]]]] ]

\* a row whose cells are all missing
all_missing(table, k) == \A c \in 1..Len(table.columns) : isna(Row(table, k)[c])

\* df.dropna(how='all')
dropna_all(table) ==
  take_rows(table, SelectSeq(Positions(table), LAMBDA k : ~all_missing(table, k)))

\* df.duplicated(): the row equals a row above it
duplicated(table, k) == \E j \in 1..(k - 1) : Row(table, j) = Row(table, k)

\* df.duplicated().sum()
duplicated_sum(table) == Cardinality({ k \in 1..Len(table.index) : duplicated(table, k) })

\* df.drop_duplicates()
drop_duplicates(table) ==
  take_rows(table, SelectSeq(Positions(table), LAMBDA k : ~duplicated(table, k)))

\* the table of _clean_dataframe at line 79, before drop_duplicates()
before_drop_duplicates(table) == dropna_all(rename_columns(table))

\* Series.str.strip(): a cell that is no text becomes missing
str_strip(col) ==
  [ col EXCEPT !.values =
      [k \in 1..Len(col.values) |->
         IF col.values[k].t = "str" THEN Str(strip(col.values[k].v, SpaceChars))
         ELSE NaNCell] ]

\* pd.to_numeric(col, errors='ignore'): the numbers when every present cell
\* is a numeral, the column itself otherwise
to_numeric(col) ==
  IF \A k \in 1..Len(col.values) :
        \/ isna(col.values[k])
        \/ col.values[k].t = "num"
        \/ col.values[k].t = "str" /\ IsNumeral(col.values[k].v)
  THEN [ col EXCEPT !.dtype = "number",
                    !.values = [k \in 1..Len(col.values) |->
                                  IF col.values[k].t = "str"
                                  THEN Num(NumeralValue(col.values[k].v))
                                  ELSE col.values[k]] ]
  ELSE col

\* lines 81-90 on one column
strip_and_convert(col) ==
  IF col.dtype = "object" THEN to_numeric(str_strip(col)) ELSE col

\* DataProcessor._clean_dataframe
_clean_dataframe(table) ==
  LET deduplicated == drop_duplicates(before_drop_duplicates(table))
  IN  [ deduplicated EXCEPT !.columns =
          [c \in 1..Len(deduplicated.columns) |->
             strip_and_convert(deduplicated.columns[c])] ]

(***************************** ingestion: _analyze_data ***********************)
unnamed == <<117, 110, 110, 97, 109, 101, 100>>

\* df[col].nunique(): the distinct present values
nunique(col) == Cardinality({ col.values[k] : k \in { j \in 1..Len(col.values) : ~isna(col.values[j]) } })

\* the columns with more than 50% missing cells (0/0 is nan, which is not > 50)
missing_issues(table) ==
  LET n == Len(table.index)
      nulls(col) == Cardinality({ k \in 1..n : isna(col.values[k]) })
      flagged == SelectSeq(table.columns, LAMBDA col : n > 0 /\ nulls(col) * 100 > 50 * n)
  IN  [k \in 1..Len(flagged) |->
         [ kind |-> "missing values", column |-> flagged[k].name,
           nulls |-> nulls(flagged[k]), rows |-> n ]]

duplicate_issues(table) ==
  IF duplicated_sum(table) > 0
  THEN << [kind |-> "duplicate rows", count |-> duplicated_sum(table)] >>
  ELSE <<>>

unnamed_issues(table) ==
  LET unnamed_cols == SelectSeq(table.columns, LAMBDA col : Contains(lower(col.name), unnamed))
  IN  IF unnamed_cols # <<>>
      THEN << [kind |-> "unnamed columns", count |-> Len(unnamed_cols)] >>
      ELSE <<>>

\* unique_ratio < 0.01 and len(df) > 100
variety_issues(table) ==
  LET n == Len(table.index)
      flagged == SelectSeq(table.columns, LAMBDA col :
                             /\ col.dtype = "object"
                             /\ nunique(col) * 100 < n
                             /\ n > 100)
  IN  [k \in 1..Len(flagged) |->
         [ kind |-> "low variety", column |-> flagged[k].name,
           unique |-> nunique(flagged[k]), rows |-> n ]]

\* DataProcessor._detect_quality_issues; nunique() / len(df) of line 153
\* divides by zero for an object column of a table without rows
_detect_quality_issues(table) ==
  IF Len(table.index) = 0
       /\ \E c \in 1..Len(table.columns) : table.columns[c].dtype = "object"
  THEN Error("ZeroDivisionError", "division by zero")
  ELSE [ status |-> "ok",
         issues |-> missing_issues(table) \o duplicate_issues(table)
                      \o unnamed_issues(table) \o variety_issues(table) ]

None == [t |-> "none", v |-> <<>>]

\* DataProcessor._analyze_data
_analyze_data(table, sheets) ==
  LET shown == Take(Positions(table), 10)
      data_preview == [k \in 1..Len(shown) |->
                         [c \in 1..Len(table.columns) |->
                            IF isna(Row(table, shown[k])[c]) THEN None
                            ELSE Row(table, shown[k])[c]]]
      quality == _detect_quality_issues(table)
  IN  IF quality.status # "ok" THEN quality
      ELSE [ status |-> "ok",
             metadata |->
               [ sheet_names |-> sheets,
                 column_mapping |-> [c \in 1..Len(table.columns) |->
                                       <<table.columns[c].name, table.columns[c].dtype>>],
                 row_count |-> Len(table.index),
                 data_preview |-> data_preview,
                 data_quality_issues |-> quality.issues ] ]

(***************************** ingestion: process_file ************************)
dot_csv == <<46, 99, 115, 118>>
dot_xlsx == <<46, 120, 108, 115, 120>>
dot_xls == <<46, 120, 108, 115>>

\* str.endswith(suffix)
endswith(s, suffix) ==
  Len(s) >= Len(suffix) /\ SubSeq(s, Len(s) - Len(suffix) + 1, Len(s)) = suffix

\* except Exception as e: raise Exception(f"Error processing file: {str(e)}")
Failure(raised) ==
  [ status |-> "raised", error |-> "Exception",
    message |-> "Error processing file", cause |-> raised.message ]

\* lines 14-20 of process_file
read_file ==
  /\ pc = "process_file"
  /\ LET read == IF endswith(filename, dot_csv) THEN _read_csv(file_contents)
                 ELSE IF endswith(filename, dot_xlsx) \/ endswith(filename, dot_xls)
                 THEN _read_excel(file_contents)
                 ELSE Error("ValueError", "Unsupported file format")
     IN  IF read.status = "ok"
         THEN /\ read_df' = read.df
              /\ sheet_names' = IF endswith(filename, dot_csv) THEN <<>>
                                ELSE read.sheet_names
              /\ pc' = "_clean_dataframe"
              /\ UNCHANGED outcome
         ELSE /\ outcome' = Failure(read)
              /\ pc' = "file_done"
              /\ UNCHANGED <<read_df, sheet_names>>
  /\ UNCHANGED <<file_contents, filename, clean_df, qvars, nvars, avars>>

\* line 22 of process_file
clean_dataframe ==
  /\ pc = "_clean_dataframe"
  /\ clean_df' = _clean_dataframe(read_df)
  /\ pc' = "_analyze_data"
  /\ UNCHANGED <<file_contents, filename, read_df, sheet_names, outcome, qvars, nvars, avars>>

\* lines 24-26 of process_file
analyze_data ==
  /\ pc = "_analyze_data"
  /\ LET analysis == _analyze_data(clean_df, sheet_names)
     IN  outcome' = IF analysis.status = "ok"
                    THEN [ status |-> "returned", df |-> clean_df,
                           metadata |-> analysis.metadata ]
                    ELSE Failure(analysis)
  /\ pc' = "file_done"
  /\ UNCHANGED <<file_contents, filename, read_df, sheet_names, clean_df, qvars, nvars, avars>>

(***************************** ingestion: inputs ******************************)
SeqsUpTo(S, n) == UNION { [1..k -> S] : k \in 0..n }

\* fields: empty, '1', 'a', ' a', and the bytes 80, E9, C3 A9 and 81
WideFields == { <<>>, <<49>>, <<97>>, <<32, 97>>, <<128>>, <<233>>, <<195, 169>>, <<129>> }
NarrowFields == { <<>>, <<49>>, <<97>> }

CsvLines == { <<f>> : f \in WideFields } \cup (NarrowFields \X NarrowFields)

\* headers 'a', 'a,b' and 'A,a'
CsvHeaders == { << <<97>> >>, << <<97>>, <<98>> >>, << <<65>>, <<97>> >> }

\* the first record after the header is not longer than the header
FirstRecordFits(header, lines) ==
  LET records == SelectSeq(lines, LAMBDA line : ~blank_line(line))
  IN  records # <<>> => Len(records[1]) <= Len(header)

CsvFiles ==
  { [kind |-> "csv", lines |-> <<>>] }
    \cup { [kind |-> "csv", lines |-> <<hl[1]>> \o hl[2]] :
             hl \in { p \in CsvHeaders \X SeqsUpTo(CsvLines, MaxCsvRows) :
                        FirstRecordFits(p[1], p[2]) } }

SheetHeader == << <<97>>, <<98>> >>

\* rows (nan, nan), (1, 'a'), (1, ' a'), (2, '1') and (1, 1)
SheetRows ==
  { <<NaNCell, NaNCell>>, <<Num(1), Str(<<97>>)>>, <<Num(1), Str(<<32, 97>>)>>,
    <<Num(2), Str(<<49>>)>>, <<Num(1), Num(1)>> }

SheetName(k) == <<83, 48 + k>>

\* the reader trims the empty rows at the end of a sheet
Trimmed(rows) == rows = <<>> \/ rows[Len(rows)] # <<NaNCell, NaNCell>>

SheetsNamed(k) ==
  { [name |-> SheetName(k), readable |-> FALSE, header |-> <<>>, rows |-> <<>>] }
    \cup { [name |-> SheetName(k), readable |-> TRUE, header |-> SheetHeader, rows |-> rows] :
             rows \in { r \in SeqsUpTo(SheetRows, MaxSheetRows) : Trimmed(r) } }

RECURSIVE SheetLists(_)
SheetLists(n) ==
  IF n = 0 THEN { <<>> }
  ELSE { Append(sheets, s) : sheets \in SheetLists(n - 1), s \in SheetsNamed(n) }

Workbooks ==
  { [kind |-> "workbook", sheets |-> sheets] :
      sheets \in UNION { SheetLists(n) : n \in 1..MaxSheets } }

\* bytes that are neither text nor a workbook
OtherFile == [kind |-> "other"]

\* d.csv, D.CSV, n.txt, b.xlsx, b.xls
CsvNames == { <<100, 46, 99, 115, 118>>, <<68, 46, 67, 83, 86>> }
TextNames == { <<110, 46, 116, 120, 116>> }
WorkbookNames == { <<98, 46, 120, 108, 115, 120>>, <<98, 46, 120, 108, 115>> }

Uploads ==
  (CsvFiles \X (CsvNames \cup TextNames \cup {<<98, 46, 120, 108, 115, 120>>}))
    \cup (Workbooks \X (WorkbookNames \cup TextNames))
    \cup ({OtherFile} \X (WorkbookNames \cup TextNames))

IngestInit ==
  /\ pc = "process_file"
  /\ \E upload \in Uploads : file_contents = upload[1] /\ filename = upload[2]
  /\ read_df = NoTable /\ sheet_names = <<>>
  /\ clean_df = NoTable /\ outcome = NoResult
  /\ uploaded_files = <<>> /\ data_cache = <<>>
  /\ request = NoRequest /\ response = NoResponse /\ engine_calls = 0
  /\ df = NoTable /\ query = <<>> /\ summary = NoSummary
  /\ locals = NoLocals /\ result = NoResult
  /\ orders = NoOrders /\ history = Untracked
  /\ names = <<>> /\ names_before = <<>>

IngestNext == read_file \/ clean_dataframe \/ analyze_data

SpecIngest == IngestInit /\ [][IngestNext]_vars

(***************************** ingestion: properties **************************)
FileReturned == pc = "file_done" /\ outcome.status = "returned"
FileRaised(cause) ==
  pc = "file_done" /\ outcome.status = "raised" /\ outcome.cause = cause

\* a row of the table read from the file whose cells, the _source_sheet tag
\* of a merged workbook aside, are all missing
InputRowAllMissing(k) ==
  \A c \in 1..Len(read_df.columns) :
     read_df.columns[c].name # source_sheet => isna(read_df.columns[c].values[k])

\* C6: a row of the input whose cells are all missing is absent from the table
\* process_file returns, for a CSV, a single sheet and merged sheets alike.
C6_AllMissingRowsAbsent ==
  FileReturned =>
    \A k \in 1..Len(read_df.index) :
       InputRowAllMissing(k) =>
         \A j \in 1..Len(outcome.df.index) : outcome.df.index[j] # read_df.index[k]

ReportedDuplicates ==
  SelectSeq(outcome.metadata.data_quality_issues,
            LAMBDA issue : issue.kind = "duplicate rows")

\* C7: the issue list holds exactly one duplicate-rows issue, with the number
\* of duplicates counted before drop_duplicates(), when the table had
\* duplicate rows then, and no such issue when it had none.
C7_DuplicatesReported ==
  FileReturned =>
    LET counted == duplicated_sum(before_drop_duplicates(read_df))
    IN  IF counted > 0
        THEN ReportedDuplicates = << [kind |-> "duplicate rows", count |-> counted] >>
        ELSE ReportedDuplicates = <<>>

\* CSV bytes that CP1252 decodes and that are not valid UTF-8
Cp1252NotUtf8(contents) ==
  /\ contents.kind = "csv"
  /\ \A r \in 1..Len(contents.lines) : \A c \in 1..Len(contents.lines[r]) :
        decode_cp1252(contents.lines[r][c]).ok
  /\ \E r \in 1..Len(contents.lines) : \E c \in 1..Len(contents.lines[r]) :
        ~decode_utf8(contents.lines[r][c]).ok

\* C8: CSV bytes in CP1252 that are not valid UTF-8 and that parse are read,
\* and the table read holds the CP1252 decoding of the bytes.
C8_Cp1252Decoded ==
  ( /\ pc # "process_file"
    /\ endswith(filename, dot_csv)
    /\ Cp1252NotUtf8(file_contents)
    /\ read_csv(file_contents, "cp1252").status = "ok" )
  => /\ pc = "file_done" => outcome.status = "returned"
     /\ read_df = read_csv(file_contents, "cp1252").df

Parses(contents, encoding) == read_csv(contents, encoding).status = "ok"

EncodingSet == { encodings[k] : k \in 1..Len(encodings) }

\* C9: process_file fails as UnsupportedFormat for a file name that ends in
\* none of .csv, .xlsx, .xls; fails as DecodeError for a .csv name when no
\* encoding of the list parses the bytes; returns (table, metadata) for a .csv
\* or spreadsheet name whose content parses.
C9_LabeledFailures ==
  pc = "file_done" =>
    LET csv == endswith(filename, dot_csv)
        spreadsheet == ~csv /\ (endswith(filename, dot_xlsx) \/ endswith(filename, dot_xls))
    IN  /\ (~csv /\ ~spreadsheet) => FileRaised("Unsupported file format")
        /\ (csv /\ \A e \in EncodingSet : ~Parses(file_contents, e))
             => FileRaised("Could not decode CSV file with any common encoding")
        /\ (csv /\ \E e \in EncodingSet : Parses(file_contents, e)) => FileReturned
        /\ (spreadsheet /\ _read_excel(file_contents).status = "ok") => FileReturned

(***************************** sessions of queries ****************************)
\* A session asks about one table again and again, on one build.
SessionShapes ==
  { <<>>, <<"number", "object">>, <<"object", "number", "number">>,
    <<"number", "number", "number">> }

SessionRows == {0, 1, MaxRows - 8}

SessionTables ==
  { MakeTable(shape, n, seed, DefaultPearson(shape, n, seed)) :
      shape \in SessionShapes, n \in SessionRows, seed \in 0..(MaxSeed - 1) }

\* the orders list.sort may give the rows of _analyze_correlations
CorrelationOrders(d) ==
  IF TooFewNumeric(_get_data_summary(d)) THEN {<<>>}
  ELSE { <<order>> : order \in SortOrders(correlations(d, _get_data_summary(d))) }

SessionInit ==
  /\ pc = "process_query"
  /\ \E d \in SessionTables, q \in CoreQueries : df = d /\ query = q
  /\ \E trend \in TieOrders, compare \in TieOrders, correlation \in CorrelationOrders(df) :
        orders = [trend |-> <<trend>>, compare |-> <<compare>>, correlation |-> correlation]
  /\ history = Tracked
  /\ summary = NoSummary
  /\ locals = NoLocals
  /\ result = NoResult
  /\ names = <<>> /\ names_before = <<>>
  /\ file_contents = NoFile /\ filename = <<>>
  /\ read_df = NoTable /\ sheet_names = <<>>
  /\ clean_df = NoTable /\ outcome = NoResult
  /\ uploaded_files = <<>> /\ data_cache = <<>>
  /\ request = NoRequest /\ response = NoResponse /\ engine_calls = 0

SpecSession == SessionInit /\ [][QueryNext]_vars

\* C11: no step of process_query changes the table it was given (columns, row
\* order, cells), whatever the handler; and a call with the query text of the
\* first call of the session returns the result of the first call.
C11_ReadOnlyDeterministic ==
  [][ /\ df' = df
      /\ (pc' = "done" /\ history'.query = query') => result' = history'.result ]_vars

\* the trend query is answered a second time on a table of more than 20 rows
\* that the handler had to reorder
C11_Witness ==
  /\ pc = "done"
  /\ history.calls = 2
  /\ history.query = query
  /\ locals.handler = "_analyze_trends"
  /\ \E k \in 1..Len(locals.df_sorted) : locals.df_sorted[k] # k
  /\ result = history.result

(***************************** the HTTP endpoints *****************************)
\* DataProcessor.process_file as one call
process_file(contents, name) ==
  LET read == IF endswith(name, dot_csv) THEN _read_csv(contents)
              ELSE IF endswith(name, dot_xlsx) \/ endswith(name, dot_xls)
              THEN _read_excel(contents)
              ELSE Error("ValueError", "Unsupported file format")
  IN  IF read.status # "ok" THEN Failure(read)
      ELSE LET cleaned == _clean_dataframe(read.df)
               sheets == IF endswith(name, dot_csv) THEN <<>> ELSE read.sheet_names
               analysis == _analyze_data(cleaned, sheets)
           IN  IF analysis.status = "ok"
               THEN [ status |-> "returned", df |-> cleaned,
                      metadata |-> analysis.metadata ]
               ELSE Failure(analysis)

NoException == [kind |-> "none", status_code |-> 0, detail |-> ""]

\* HTTPException(status_code=..., detail=...) that leaves the handler; cause
\* is the exception whose str() the detail ends with
HTTPException(status_code, detail, cause) ==
  [ status_code |-> status_code, detail |-> detail, cause |-> cause,
    body |-> [kind |-> "none"] ]

\* a caught exception: an HTTPException raised inside the try block is an
\* Exception like any other
Caught(kind, status_code, detail) ==
  [kind |-> kind, status_code |-> status_code, detail |-> detail]

\* except Exception as e: raise HTTPException(status_code=500, detail=f"...{str(e)}")
Wrapped(detail, e) == HTTPException(500, detail, e)

\* a returned JSON body
Json(body) == [status_code |-> 200, detail |-> "", cause |-> NoException, body |-> body]

\* df.to_dict(orient="records"): one record per row, <<column, cell>> pairs
to_dict(table) ==
  [k \in 1..Len(table.index) |->
     [c \in 1..Len(table.columns) |-> <<table.columns[c].name, Row(table, k)[c]>>]]

\* the text of a name or cell as the query engine holds it; the texts of the
\* files drawn are the letters a, b, c
Text(s) == IF Len(s) = 1 /\ s[1] \in 97..99 THEN <<"a", "b", "c">>[s[1] - 96] ELSE "?"

\* pd.DataFrame(records): the columns are the keys of the records, so a table
\* without rows comes back without columns; a missing cell is NaN in a number
\* column and None in an object column.  The files drawn have at most one
\* number column, so the table has no pair of columns with a coefficient.
DataFrame(records) ==
  IF records = <<>> THEN [columns |-> <<>>, nrows |-> 0, pearson |-> <<>>]
  ELSE [ columns |->
           [c \in 1..Len(records[1]) |->
              LET cells == [k \in 1..Len(records) |-> records[k][c][2]]
                  number == cells_dtype(cells) = "number"
              IN  [ name |-> Text(records[1][c][1]),
                    dtype |-> cells_dtype(cells),
                    values |-> [k \in 1..Len(cells) |->
                                  IF number
                                  THEN (IF isna(cells[k]) THEN NaN ELSE cells[k].v[1])
                                  ELSE (IF cells[k].t = "str" THEN Text(cells[k].v)
                                        ELSE NoneStr)] ]],
         nrows |-> Len(records),
         pearson |-> <<>> ]

\* f"full_data_{file_id}"
cache_key(file_id) == <<"full_data", file_id>>

\* .select("data").eq("file_id", ...).eq("cache_key", ...).execute().data
select_data(file_id) ==
  SelectSeq(data_cache, LAMBDA row : row.file_id = file_id
                                     /\ row.cache_key = cache_key(file_id))

(***************************** requests ***************************************)
UserIds == { <<>>, <<"u", "1">> }

\* a,b / 1,a / 1,b / 2,a as d.csv; the header a alone; an empty file; a .txt
\* name; no file name
TwoColumns ==
  [ kind |-> "csv",
    lines |-> << << <<97>>, <<98>> >>, << <<49>>, <<97>> >>,
                 << <<49>>, <<98>> >>, << <<50>>, <<97>> >> >> ]
HeaderOnly == [kind |-> "csv", lines |-> << << <<97>> >> >>]
EmptyFile == [kind |-> "csv", lines |-> <<>>]

ApiUploads ==
  { <<TwoColumns, <<100, 46, 99, 115, 118>> >>,
    <<HeaderOnly, <<100, 46, 99, 115, 118>> >>,
    <<EmptyFile, <<100, 46, 99, 115, 118>> >>,
    <<TwoColumns, <<110, 46, 116, 120, 116>> >>,
    <<TwoColumns, <<>> >> }

\* one query for every handler
ApiQueries ==
  { <<"t","r","e","n","d">>, <<"S","t","a","t","s">>, <<"C","O","M","P","A","R","E">>,
    <<"t","o","p">>, <<"A","v","e","r","a","g","e">>, <<"r","e","l","a","t","e">>,
    <<"x">> }

\* the ids the table can give, and one it never gives
FileIds == 1..(MaxUploads + 1)

\* lines 52-73 of upload_file
upload_file ==
  /\ pc = "idle"
  /\ Len(uploaded_files) < MaxUploads
  /\ \E user_id \in UserIds, upload \in ApiUploads :
       /\ request' = [endpoint |-> "upload", user_id |-> user_id]
       /\ file_contents' = upload[1]
       /\ filename' = upload[2]
       /\ IF user_id = <<>>
          THEN /\ response' = HTTPException(400, "User ID is required", NoException)
               /\ pc' = "responded"
               /\ UNCHANGED outcome
          ELSE IF upload[2] = <<>>
          THEN /\ response' = HTTPException(400, "No file provided", NoException)
               /\ pc' = "responded"
               /\ UNCHANGED outcome
          ELSE LET processed == process_file(upload[1], upload[2])
               IN  IF processed.status = "raised"
                   THEN /\ response' = Wrapped("Error processing file",
                                               Caught("Exception", 0, processed.cause))
                        /\ pc' = "responded"
                        /\ UNCHANGED outcome
                   ELSE /\ outcome' = processed
                        /\ pc' = "uploaded_files.insert"
                        /\ UNCHANGED response
  /\ UNCHANGED <<uploaded_files, data_cache, engine_calls, read_df, sheet_names,
                 clean_df, qvars, nvars>>

\* lines 75-80 of upload_file: the insert returns the row, returns no data or
\* raises
insert_uploaded_file ==
  /\ pc = "uploaded_files.insert"
  /\ \E executed \in {"row", "no data", "raised"} :
       IF executed = "row"
       THEN /\ uploaded_files' =
                 Append(uploaded_files,
                        [ id |-> Len(uploaded_files) + 1,
                          user_id |-> request.user_id,
                          original_filename |-> filename,
                          row_count |-> outcome.metadata.row_count ])
            /\ pc' = "data_cache.insert"
            /\ UNCHANGED response
       ELSE /\ response' =
                 Wrapped("Error processing file",
                         IF executed = "no data"
                         THEN Caught("HTTPException", 500, "Failed to save file metadata")
                         ELSE Caught("Exception", 0, "APIError"))
            /\ pc' = "responded"
            /\ UNCHANGED uploaded_files
  /\ UNCHANGED <<data_cache, request, engine_calls, qvars, nvars, ivars>>

\* lines 82-94 of upload_file: the insert stores the row or raises
insert_data_cache ==
  /\ pc = "data_cache.insert"
  /\ LET file_id == uploaded_files[Len(uploaded_files)].id
     IN  \E executed \in {"row", "raised"} :
           IF executed = "row"
           THEN /\ data_cache' =
                     Append(data_cache,
                            [ file_id |-> file_id, cache_key |-> cache_key(file_id),
                              data |-> to_dict(outcome.df) ])
                /\ response' =
                     Json([ file_id |-> file_id, filename |-> filename,
                            row_count |-> outcome.metadata.row_count,
                            columns |-> [c \in 1..Len(outcome.metadata.column_mapping) |->
                                           outcome.metadata.column_mapping[c][1]] ])
           ELSE /\ response' = Wrapped("Error processing file",
                                       Caught("Exception", 0, "APIError"))
                /\ UNCHANGED data_cache
  /\ pc' = "responded"
  /\ UNCHANGED <<uploaded_files, request, engine_calls, qvars, nvars, ivars>>

\* lines 101-114 of the /api/query handler: the 404 is raised inside the try
\* block, whose except clause catches every Exception
api_process_query ==
  /\ pc = "idle"
  /\ \E file_id \in FileIds, q \in ApiQueries :
       /\ request' = [endpoint |-> "query", file_id |-> file_id, query |-> q]
       /\ IF select_data(file_id) = <<>>
          THEN /\ response' = Wrapped("Error processing query",
                                      Caught("HTTPException", 404, "File data not found"))
               /\ pc' = "responded"
               /\ UNCHANGED <<df, query, engine_calls>>
          ELSE /\ df' = DataFrame(select_data(file_id)[1].data)
               /\ query' = q
               /\ engine_calls' = engine_calls + 1
               /\ pc' = "process_query"
               /\ UNCHANGED response
  /\ UNCHANGED <<summary, locals, result, orders, history, uploaded_files,
                 data_cache, nvars, ivars>>

\* lines 116-123 of the /api/query handler
api_query_return ==
  /\ pc = "done"
  /\ request.endpoint = "query"
  /\ response' = IF result.status = "raised"
                 THEN Wrapped("Error processing query",
                              Caught("Exception", 0, result.error))
                 ELSE Json([ answer |-> result.answer,
                             visualization |-> result.visualization,
                             query_metadata |-> result.metadata ])
  /\ pc' = "responded"
  /\ UNCHANGED <<uploaded_files, data_cache, request, engine_calls, qvars, nvars, ivars>>

\* the next request arrives when the last one is answered
next_request ==
  /\ pc = "responded"
  /\ pc' = "idle"
  /\ request' = NoRequest /\ response' = NoResponse /\ engine_calls' = 0
  /\ df' = NoTable /\ query' = <<>> /\ summary' = NoSummary
  /\ locals' = NoLocals /\ result' = NoResult
  /\ file_contents' = NoFile /\ filename' = <<>> /\ outcome' = NoResult
  /\ UNCHANGED <<uploaded_files, data_cache, orders, history, read_df,
                 sheet_names, clean_df, nvars>>

ApiInit ==
  /\ pc = "idle"
  /\ uploaded_files = <<>> /\ data_cache = <<>>
  /\ request = NoRequest /\ response = NoResponse /\ engine_calls = 0
  /\ df = NoTable /\ query = <<>> /\ summary = NoSummary
  /\ locals = NoLocals /\ result = NoResult
  /\ orders = NoOrders /\ history = Untracked
  /\ names = <<>> /\ names_before = <<>>
  /\ file_contents = NoFile /\ filename = <<>>
  /\ read_df = NoTable /\ sheet_names = <<>>
  /\ clean_df = NoTable /\ outcome = NoResult

ApiNext ==
  \/ upload_file
  \/ insert_uploaded_file
  \/ insert_data_cache
  \/ api_process_query
  \/ process_query
  \/ analyze_trends
  \/ generate_statistics
  \/ compare_data
  \/ find_extremes
  \/ calculate_aggregates
  \/ analyze_correlations
  \/ general_analysis
  \/ api_query_return
  \/ next_request

SpecApi == ApiInit /\ [][ApiNext]_vars

(***************************** properties of the endpoints ********************)
QueryAnswered == pc = "responded" /\ request.endpoint = "query"
UploadAnswered == pc = "responded" /\ request.endpoint = "upload"

\* C12: /api/query for a file_id without a data_cache row under
\* full_data_<file_id> ends as 404 "File data not found" and the engine is not
\* called; with such a row the engine is called once, on the cached table, and
\* its answer, visualization and metadata are returned; a file_id that
\* /api/upload returned has such a row.
C12_QueryOutcomes ==
  /\ QueryAnswered =>
       IF select_data(request.file_id) = <<>>
       THEN /\ response.status_code = 404
            /\ response.detail = "File data not found"
            /\ engine_calls = 0
       ELSE /\ engine_calls = 1
            /\ df = DataFrame(select_data(request.file_id)[1].data)
            /\ query = request.query
            /\ result.status = "returned" =>
                 response = Json([ answer |-> result.answer,
                                   visualization |-> result.visualization,
                                   query_metadata |-> result.metadata ])
  /\ (UploadAnswered /\ response.status_code = 200) =>
       select_data(response.body.file_id) # <<>>

====
